---- MODULE Spec2Model ----
(***************************************************************************)
(* Model of plot.py: a linear script that opens maya.h5, loads the muon    *)
(* table, splits it on iffClass, histograms pt per subset and saves the    *)
(* figure as pt.png.  One action per statement of the script; an uncaught  *)
(* exception ends the run.  Rows carry the two columns the script reads    *)
(* after loading (pt, iffClass); pt takes finite values.                   *)
(***************************************************************************)
EXTENDS Integers, Sequences, FiniteSets, TLC

VARIABLES pc, run, err, data, df, obj_prompt, obj_nonprompt,
          fig, hist_prompt, hist_nonprompt, files

vars == <<pc, run, err, data, df, obj_prompt, obj_nonprompt,
          fig, hist_prompt, hist_nonprompt, files>>

\* ---- bounds of the model ----
MaxRows == 3
MaxPt == 2
MaxRuns == 2

\* ---- constants of the script ----
PromptClass == 4
Bins == 100
OutputFile == "pt.png"

\* a missing label: the float NaN of the loaded numpy array
NaN == 0 - 1

\* a name of the script is unbound (<<>>) or bound to a value (<<v>>)
Unset == <<>>
Some(v) == <<v>>
Val(x) == x[1]

\* no exception is pending
None == "None"

PtValues == 1..MaxPt
Labels == {PromptClass, PromptClass + 1, NaN}
RawRows == [pt : PtValues, iffClass : Labels]

RECURSIVE SeqsUpTo(_, _)
SeqsUpTo(S, n) ==
    IF n = 0 THEN {<<>>}
    ELSE LET shorter == SeqsUpTo(S, n - 1)
         IN  shorter \cup {Append(s, x) : s \in {t \in shorter : Len(t) = n - 1}, x \in S}

\* the synthetic table with iffClass = [4,4,4,5,5,6,6,6,6,6]
ExampleLabels == <<4, 4, 4, 5, 5, 6, 6, 6, 6, 6>>
ExampleTable == [i \in 1..10 |-> [pt |-> 1 + (i % 2), iffClass |-> ExampleLabels[i]]]

Tables == SeqsUpTo(RawRows, MaxRows) \cup {ExampleTable}

\* what a run can meet when it reads maya.h5: the constructor fails, load()
\* fails, or load() hands back a table
OpenFaults == {"file_not_found"}
LoadFaults == {"collection_absent", "field_absent"}
Faults == OpenFaults \cup LoadFaults

\* ---- control flow of the script ----
NextLine(l) ==
    CASE l = "L11" -> "L12"
      [] l = "L12" -> "L13"
      [] l = "L13" -> "L16"
      [] l = "L16" -> "L17"
      [] l = "L17" -> "L20"
      [] l = "L20" -> "L21"
      [] l = "L21" -> "L22"
      [] l = "L22" -> "L23"
      [] l = "L23" -> "L26"
      [] l = "L26" -> "done"

\* variant: the exception is swallowed and the script goes on
Swallowed(e, l) == err' = e /\ pc' = NextLine(l)

\* the script has no try/except: a raised exception ends the run
Uncaught(e, l) == err' = e /\ pc' = "failed"

Step(l) == err' = err /\ pc' = NextLine(l)

\* ---- element-wise comparison of a column with a scalar ----
\* variant: >= typed for ==
EqGe(a, b) == a /= NaN /\ b /= NaN /\ a >= b

\* == on numpy values: false whenever an operand is NaN
Eq(a, b) == a /= NaN /\ b /= NaN /\ a = b

\* variant: >= typed for !=
NeGe(a, b) == a = NaN \/ b = NaN \/ a >= b

\* variant: a missing value compares false (nullable-dtype semantics)
NeNA(a, b) == a /= NaN /\ b /= NaN /\ a /= b

\* != on numpy values: true whenever an operand is NaN
Ne(a, b) == a = NaN \/ b = NaN \/ a /= b

\* variant: the kept rows come out in reverse order
RECURSIVE BoolIndexReversed(_, _)
BoolIndexReversed(t, m) ==
    IF t = <<>> THEN <<>>
    ELSE LET rest == BoolIndexReversed(Tail(t), Tail(m))
         IN  IF Head(m) THEN rest \o <<Head(t)>> ELSE rest

\* df[mask]: the rows whose mask entry is true, index labels kept
RECURSIVE BoolIndex(_, _)
BoolIndex(t, m) ==
    IF t = <<>> THEN <<>>
    ELSE LET rest == BoolIndex(Tail(t), Tail(m))
         IN  IF Head(m) THEN <<Head(t)>> \o rest ELSE rest

\* pd.DataFrame(data, columns=columns): the rows under a RangeIndex
DataFrame(d) == [i \in 1..Len(d) |-> [idx |-> i - 1, pt |-> d[i].pt, iffClass |-> d[i].iffClass]]

\* t['pt']
ColumnPt(t) == [i \in 1..Len(t) |-> t[i].pt]

\* ---- ax.hist(x, bins=100): numpy.histogram with an integer bin count ----
SeqMin(x) == CHOOSE v \in {x[i] : i \in 1..Len(x)} : \A i \in 1..Len(x) : v <= x[i]
SeqMax(x) == CHOOSE v \in {x[i] : i \in 1..Len(x)} : \A i \in 1..Len(x) : v >= x[i]

\* the outer edges, doubled to stay in the integers: (0, 1) for no data,
\* (v - 0.5, v + 0.5) for a single value v, else (min, max) of x itself
HistRange2(x) ==
    IF x = <<>> THEN <<0, 2>>
    ELSE IF SeqMin(x) = SeqMax(x) THEN <<2 * SeqMin(x) - 1, 2 * SeqMax(x) + 1>>
    ELSE <<2 * SeqMin(x), 2 * SeqMax(x)>>

\* the bin of value v; the last bin is closed on the right
BinOf(v, r) ==
    IF 2 * v = r[2] THEN Bins - 1
    ELSE ((2 * v - r[1]) * Bins) \div (r[2] - r[1])

Hist(x) ==
    LET r == HistRange2(x)
    IN  [lo2 |-> r[1], hi2 |-> r[2],
         counts |-> [b \in 0..(Bins - 1) |->
                        Cardinality({i \in 1..Len(x) : BinOf(x[i], r) = b})]]

\* the Bins + 1 bin edges of a histogram, in units of 1 / (2 * Bins)
Edges(h) == [i \in 0..Bins |-> h.lo2 * Bins + i * (h.hi2 - h.lo2)]

\* ---- the figure and the file system ----
NewFigure == [xlabel |-> "", ylabel |-> "", legend |-> <<>>]

\* the encoded image: the PNG signature, then the figure's text elements
Render(f) == <<"PNG", f.xlabel, f.ylabel>> \o f.legend

\* variant: an existing file is left as it is
WriteFileNoClobber(fs, name, c) ==
    [f \in (DOMAIN fs) \cup {name} |-> IF f \in DOMAIN fs THEN fs[f] ELSE c]

\* create or overwrite the file called name
WriteFile(fs, name, c) ==
    [f \in (DOMAIN fs) \cup {name} |-> IF f = name THEN c ELSE fs[f]]

Init ==
    /\ pc = "L11"
    /\ run = 1
    /\ err = None
    /\ data = Unset
    /\ df = Unset
    /\ obj_prompt = Unset
    /\ obj_nonprompt = Unset
    /\ fig = Unset
    /\ hist_prompt = Unset
    /\ hist_nonprompt = Unset
    /\ files = <<>>

\* line 11: reader = H5Reader(fname, jets_name=obj, batch_size=1_000)
OpenReader ==
    /\ pc = "L11"
    /\ \/ \E e \in OpenFaults : Uncaught(e, "L11")
       \/ Step("L11")
    /\ UNCHANGED <<run, data, df, obj_prompt, obj_nonprompt,
                   fig, hist_prompt, hist_nonprompt, files>>

\* line 12: data = reader.load({obj: columns}, num_jets=100_000)[obj]
Load ==
    /\ pc = "L12"
    /\ \/ \E e \in LoadFaults : Uncaught(e, "L12") /\ UNCHANGED data
       \/ \E t \in Tables : Step("L12") /\ data' = Some(t)
    /\ UNCHANGED <<run, df, obj_prompt, obj_nonprompt,
                   fig, hist_prompt, hist_nonprompt, files>>

\* line 13: df = pd.DataFrame(data, columns=columns)
MakeDataFrame ==
    /\ pc = "L13"
    /\ df' = Some(DataFrame(Val(data)))
    /\ Step("L13")
    /\ UNCHANGED <<run, data, obj_prompt, obj_nonprompt,
                   fig, hist_prompt, hist_nonprompt, files>>

\* line 16: obj_prompt = df[df['iffClass'] == 4]
SelectPrompt ==
    /\ pc = "L16"
    /\ LET t == Val(df)
           mask == [i \in 1..Len(t) |-> Eq(t[i].iffClass, PromptClass)]
       IN  obj_prompt' = Some(BoolIndex(t, mask))
    /\ Step("L16")
    /\ UNCHANGED <<run, data, df, obj_nonprompt,
                   fig, hist_prompt, hist_nonprompt, files>>

\* line 17: obj_nonprompt = df[df['iffClass'] != 4]
SelectNonprompt ==
    /\ pc = "L17"
    /\ LET t == Val(df)
           mask == [i \in 1..Len(t) |-> Ne(t[i].iffClass, PromptClass)]
       IN  obj_nonprompt' = Some(BoolIndex(t, mask))
    /\ Step("L17")
    /\ UNCHANGED <<run, data, df, obj_prompt,
                   fig, hist_prompt, hist_nonprompt, files>>

\* line 20: fig, ax = plt.subplots()
Subplots ==
    /\ pc = "L20"
    /\ fig' = Some(NewFigure)
    /\ Step("L20")
    /\ UNCHANGED <<run, data, df, obj_prompt, obj_nonprompt,
                   hist_prompt, hist_nonprompt, files>>

\* variant: the range is taken with min() and max(), which raise on no data
HistPromptStrict ==
    /\ pc = "L21"
    /\ IF Val(obj_prompt) = <<>>
       THEN Uncaught("ValueError", "L21") /\ UNCHANGED hist_prompt
       ELSE Step("L21") /\ hist_prompt' = Some(Hist(ColumnPt(Val(obj_prompt))))
    /\ UNCHANGED <<run, data, df, obj_prompt, obj_nonprompt,
                   fig, hist_nonprompt, files>>

\* line 21: ax.hist(obj_prompt['pt'], bins=100, alpha=0.5, label='prompt')
HistPrompt ==
    /\ pc = "L21"
    /\ hist_prompt' = Some(Hist(ColumnPt(Val(obj_prompt))))
    /\ Step("L21")
    /\ UNCHANGED <<run, data, df, obj_prompt, obj_nonprompt,
                   fig, hist_nonprompt, files>>

\* line 22: ax.hist(obj_nonprompt['pt'], bins=100, alpha=0.5, label='nonprompt')
HistNonprompt ==
    /\ pc = "L22"
    /\ hist_nonprompt' = Some(Hist(ColumnPt(Val(obj_nonprompt))))
    /\ Step("L22")
    /\ UNCHANGED <<run, data, df, obj_prompt, obj_nonprompt,
                   fig, hist_prompt, files>>

\* lines 23-25: plt.xlabel('pt'); plt.ylabel('Frequency'); ax.legend(...)
Decorate ==
    /\ pc = "L23"
    /\ fig' = Some([xlabel |-> "pt", ylabel |-> "Frequency",
                    legend |-> <<"prompt", "nonprompt">>])
    /\ Step("L23")
    /\ UNCHANGED <<run, data, df, obj_prompt, obj_nonprompt,
                   hist_prompt, hist_nonprompt, files>>

\* line 26: fig.savefig('pt.png')
Savefig ==
    /\ pc = "L26"
    /\ files' = WriteFile(files, OutputFile, [run |-> run, content |-> Render(Val(fig))])
    /\ Step("L26")
    /\ UNCHANGED <<run, data, df, obj_prompt, obj_nonprompt,
                   fig, hist_prompt, hist_nonprompt>>

\* the script is started again: a fresh interpreter, the same directory
Rerun ==
    /\ pc \in {"done", "failed"}
    /\ run < MaxRuns
    /\ run' = run + 1
    /\ pc' = "L11"
    /\ err' = None
    /\ data' = Unset
    /\ df' = Unset
    /\ obj_prompt' = Unset
    /\ obj_nonprompt' = Unset
    /\ fig' = Unset
    /\ hist_prompt' = Unset
    /\ hist_nonprompt' = Unset
    /\ UNCHANGED files

Next ==
    \/ OpenReader
    \/ Load
    \/ MakeDataFrame
    \/ SelectPrompt
    \/ SelectNonprompt
    \/ Subplots
    \/ HistPrompt
    \/ HistNonprompt
    \/ Decorate
    \/ Savefig
    \/ Rerun

Spec == Init /\ [][Next]_vars

TypeOK ==
    /\ pc \in {"L11", "L12", "L13", "L16", "L17", "L20", "L21", "L22", "L23", "L26", "done", "failed"}
    /\ run \in 1..MaxRuns
    /\ err \in {None, "ValueError"} \cup Faults
    /\ DOMAIN files \subseteq {OutputFile}

\* ---- properties ----
Selected == obj_prompt /= Unset /\ obj_nonprompt /= Unset
Rendered == hist_prompt /= Unset /\ hist_nonprompt /= Unset
NoMissing(t) == \A i \in 1..Len(t) : t[i].iffClass /= NaN
IdxOf(t) == {t[i].idx : i \in 1..Len(t)}

\* C1: for a loaded table with no missing iffClass, the prompt and nonprompt
\* subsets together have as many rows as the table
C1_SizesAddUp ==
    (Selected /\ NoMissing(Val(df)))
        => Len(Val(obj_prompt)) + Len(Val(obj_nonprompt)) = Len(Val(df))

C1_Witness ==
    /\ Selected
    /\ NoMissing(Val(df))
    /\ Len(Val(obj_prompt)) >= 1
    /\ Len(Val(obj_nonprompt)) >= 1

\* C2: no row of the loaded table is both in obj_prompt and in obj_nonprompt
C2_Disjoint ==
    Selected => IdxOf(Val(obj_prompt)) \cap IdxOf(Val(obj_nonprompt)) = {}

C2_Witness ==
    /\ Selected
    /\ Len(Val(obj_prompt)) >= 2
    /\ Len(Val(obj_nonprompt)) >= 1

\* sub holds exactly the rows of t whose label satisfies want, each row as it
\* is in t and in the order of t
IsSelection(sub, t, want(_)) ==
    /\ \A k \in 1..Len(sub) :
          /\ sub[k].idx + 1 \in 1..Len(t)
          /\ sub[k] = t[sub[k].idx + 1]
    /\ \A k \in 1..(Len(sub) - 1) : sub[k].idx < sub[k + 1].idx
    /\ IdxOf(sub) = {t[i].idx : i \in {j \in 1..Len(t) : want(t[j].iffClass)}}

\* C3: obj_prompt is exactly the rows with iffClass equal to 4 and
\* obj_nonprompt exactly the rows with iffClass different from 4, rows
\* unchanged and in their original order
C3_ExactSelection ==
    Selected =>
        /\ IsSelection(Val(obj_prompt), Val(df), LAMBDA c : c = PromptClass)
        /\ IsSelection(Val(obj_nonprompt), Val(df), LAMBDA c : c /= PromptClass)

\* the table with labels [4,4,4,5,5,6,6,6,6,6] gives 3 and 7 rows
C3_Witness ==
    /\ Selected
    /\ Val(data) = ExampleTable
    /\ Len(Val(obj_prompt)) = 3
    /\ Len(Val(obj_nonprompt)) = 7

\* C6: once the reader has failed, the run is over: no table, subset, figure
\* or histogram is ever made and no file carries this run's stamp
C6_ReadFailureFatal ==
    (err \in Faults) =>
        /\ pc = "failed"
        /\ df = Unset
        /\ obj_prompt = Unset
        /\ obj_nonprompt = Unset
        /\ fig = Unset
        /\ hist_prompt = Unset
        /\ hist_nonprompt = Unset
        /\ \A f \in DOMAIN files : files[f].run /= run

\* a run failed in the reader while an earlier run's pt.png is on disk
C6_Witness ==
    /\ err \in Faults
    /\ pc = "failed"
    /\ OutputFile \in DOMAIN files
    /\ files[OutputFile].run < run

AllZero(h) == \A b \in 0..(Bins - 1) : h.counts[b] = 0

\* C7: with an empty subset the run raises nothing, the histogram of each
\* empty subset has only zero counts, and a finished run has written pt.png
C7_EmptySubsetOk ==
    (Selected /\ (Val(obj_prompt) = <<>> \/ Val(obj_nonprompt) = <<>>)) =>
        /\ err = None
        /\ pc /= "failed"
        /\ (hist_prompt /= Unset /\ Val(obj_prompt) = <<>>) => AllZero(Val(hist_prompt))
        /\ (hist_nonprompt /= Unset /\ Val(obj_nonprompt) = <<>>) => AllZero(Val(hist_nonprompt))
        /\ pc = "done" => (OutputFile \in DOMAIN files /\ files[OutputFile].run = run)

\* a run over an empty table finished and wrote the image
C7_Witness ==
    /\ pc = "done"
    /\ Val(df) = <<>>
    /\ AllZero(Val(hist_prompt))
    /\ AllZero(Val(hist_nonprompt))
    /\ files[OutputFile].run = run

C8_AfterRun ==
    /\ DOMAIN files \subseteq {OutputFile}
    /\ pc = "done" =>
          /\ DOMAIN files = {OutputFile}
          /\ files[OutputFile].run = run
          /\ Len(files[OutputFile].content) > 0

C8_WrittenLast == (files' /= files) => (pc = "L26" /\ pc' = "done")

\* C8: the only step that touches the file system is the last one; after a
\* successful run pt.png is the one file, it is the file this run wrote (an
\* older one is overwritten) and it is not empty
C8_SingleOutput == [](C8_AfterRun) /\ [][C8_WrittenLast]_vars

\* a later run finished with pt.png rewritten by it
C8_Witness ==
    /\ pc = "done"
    /\ run >= 2
    /\ DOMAIN files = {OutputFile}
    /\ files[OutputFile].run = run

RECURSIVE SumCounts(_, _)
SumCounts(c, n) == IF n = 0 THEN 0 ELSE c[n - 1] + SumCounts(c, n - 1)

\* C9: both histograms are counted over one set of 100 equal-width bins, and
\* the counts of each subset add up to its number of rows
C9_SharedBins ==
    Rendered =>
        /\ Edges(Val(hist_prompt)) = Edges(Val(hist_nonprompt))
        /\ Cardinality(DOMAIN Val(hist_prompt).counts) = 100
        /\ Cardinality(DOMAIN Val(hist_nonprompt).counts) = 100
        /\ SumCounts(Val(hist_prompt).counts, Bins) = Len(Val(obj_prompt))
        /\ SumCounts(Val(hist_nonprompt).counts, Bins) = Len(Val(obj_nonprompt))

\* C10: a row whose iffClass is missing or is not 4 is in obj_nonprompt and
\* not in obj_prompt, and every row is in exactly one of the two subsets
C10_MissingIsNonprompt ==
    Selected =>
        \A i \in 1..Len(Val(df)) :
            LET r == Val(df)[i]
                inP == r.idx \in IdxOf(Val(obj_prompt))
                inN == r.idx \in IdxOf(Val(obj_nonprompt))
            IN  /\ inP /= inN
                /\ (r.iffClass = NaN \/ r.iffClass /= PromptClass) => (inN /\ ~inP)

\* a table with a missing label has been split and the row is in obj_nonprompt
C10_Witness ==
    /\ Selected
    /\ \E i \in 1..Len(Val(df)) :
          /\ Val(df)[i].iffClass = NaN
          /\ \E k \in 1..Len(Val(obj_nonprompt)) : Val(obj_nonprompt)[k] = Val(df)[i]
====
